---- MODULE Spec2Model ----
(***************************************************************************)
(* yimolt-agent: the resilient transport (httpsRequest / httpsPost), the   *)
(* rate-limit gate (canPost / canComment) and the generate-validate-submit *)
(* loop (createOriginalPost) of YiMoltAgent, as state machines.            *)
(*                                                                         *)
(*   SpecTransport  one logical call of httpsRequest / httpsPost           *)
(*   Spec           heartbeat cycles of one YiMoltAgent instance           *)
(*   SpecComment    commentOnPost calls of one YiMoltAgent instance        *)
(*   SpecOverlap    two heartbeat cycles of one instance at a time         *)
(*   SpecCommentOverlap  two commentOnPost calls of one instance at a time *)
(*   SpecTransportLive  SpecTransport with its fairness conditions         *)
(*   SpecFingerprint    normalizeTitle() applied to pairs of titles        *)
(***************************************************************************)
EXTENDS Integers, Sequences, FiniteSets, TLC

VARIABLES
    \* ---- transport: one logical call ----
    kind,          \* "httpsRequest" (moltbook.ts) or "httpsPost" (ai-provider.ts)
    budget,        \* the retries argument of the outermost call
    clock,         \* milliseconds since the logical call was made
    attemptLog,    \* one record per physical attempt (https.request), in start order
    timers,        \* pending setTimeout callbacks that start a retry
    settled,       \* the promise handed to the caller
    client,        \* the caller awaiting that promise: MoltbookClient.request()
                   \* for httpsRequest, generateResponse() for httpsPost
    \* ---- agent: the clock and the fields of YiMoltAgent ----
    now,           \* Date.now(), in seconds
    variant,       \* which YiMoltAgent class runs: "codeblog", "moltbook" or "agent"
    lastPostTime,
    recentPostTitles,
    commentCount,
    commentResetTime,
    \* ---- agent: the heartbeat cycles (async calls of heartbeat()) ----
    pc,            \* per cycle: where the async function is suspended
    run,           \* per cycle: locals and call counts of the current cycle
    posts,         \* the posts the server accepted, in order
    \* ---- agent: commentOnPost calls ----
    cpc,           \* per caller: where commentOnPost is suspended
    comments,      \* what the callers observed (gate results, created comments)
    \* ---- normalizeTitle() on its own ----
    titles,        \* the two titles handed to normalizeTitle()
    prints         \* what it returned for them (<<>> before the calls)

tvars == <<kind, budget, clock, attemptLog, timers, settled, client>>
avars == <<now, variant, lastPostTime, recentPostTitles, pc, run, posts>>
cvars == <<commentCount, commentResetTime, cpc, comments>>
nvars == <<titles, prints>>
vars  == <<tvars, avars, cvars, nvars>>

Min(a, b) == IF a <= b THEN a ELSE b

(***************************************************************************)
(* Resilient transport                                                     *)
(***************************************************************************)

\* the default value of the retries parameter; no caller passes another one
DEFAULT_RETRIES == 3
\* the delay of the setTimeout that starts a retry
BACKOFF_MS == 1000
\* how many physical attempts of one logical call are followed
MaxAttempts == 4
\* the time a request or a response spends on the network, when it is not lost
LatencyMs == 300

\* req.setTimeout(30000, ...) in httpsRequest, req.setTimeout(60000, ...) in httpsPost
TimeoutMs(k) == IF k = "httpsRequest" THEN 30000 ELSE 60000

Kinds == {"httpsRequest", "httpsPost"}

\* what a server can answer: res.statusCode and the collected body
Responses ==
    { [status |-> 200, body |-> "json"],
      [status |-> 204, body |-> ""],
      [status |-> 404, body |-> "duplicate title"] }

NoResponse == [status |-> -1, body |-> "none"]

\* a physical attempt: https.request(...) ... req.end()
NewAttempt(r, by, waited) ==
    [ retries   |-> r,          \* the retries argument of this invocation
      active    |-> clock,      \* the last socket activity (the idle timeout counts from it)
      phase     |-> "sent",     \* sent -> receiving -> closed, or sent -> destroyed -> closed
      outcome   |-> "pending",  \* pending, response, error, timeout
      response  |-> NoResponse,
      parent    |-> by,         \* the attempt whose handler scheduled this one (0: the caller)
      waited    |-> waited,     \* from the failure that scheduled it to its start
      startedBefore |-> 0 ]     \* attempts started when this one ended

\* the record of an attempt that ended
Close(a, phase, outcome, resp) ==
    [a EXCEPT !.phase = phase, !.outcome = outcome, !.response = resp,
              !.active = 0, !.startedBefore = Len(attemptLog)]

Indexes == 1..Len(attemptLog)

Pending == [state |-> "pending", response |-> NoResponse, cause |-> "none", by |-> 0]

\* resolve(...) of the outermost promise; inner promises forward with
\* .then(resolve).catch(reject), and a settled promise ignores later calls
Resolve(s, resp, i) ==
    IF s.state = "pending"
    THEN [state |-> "resolved", response |-> resp, cause |-> "none", by |-> i]
    ELSE s

Reject(s, cause, i) ==
    IF s.state = "pending"
    THEN [state |-> "rejected", response |-> NoResponse, cause |-> cause, by |-> i]
    ELSE s

NoError == [kind |-> "none", status |-> -1, body |-> "none"]

IsErrorStatusServerOnly(status) == status >= 500

\* if (result.status >= 400)
IsErrorStatus(status) == status >= 400

\* JSON.parse(result.body) returns for the JSON body and throws a SyntaxError for
\* the empty body and for plain text
Parses(body) == body = "json"

\* what a JSON body decodes to: an object of the shape T the operation
\* declares, or some other JSON value
Shapes == {"expected", "other"}

\* JSON.parse(result.body) as T: the cast is erased at run time
Decoded(shape) == IF shape = "expected" THEN "object" ELSE "other object"

\* request<T>() after await httpsRequest(...): a rejection of the transport
\* leaves request() as it is; a status >= 400 becomes
\* new Error(`MoltBook API Error [${status}]: ${body}`); otherwise the parsed
\* body is returned
RequestOutcome(s, shape) ==
    IF s.state = "rejected"
    THEN [state |-> "threw", calls |-> client.calls, value |-> "none",
          error |-> [kind |-> "transport", status |-> -1, body |-> s.cause]]
    ELSE IF IsErrorStatus(s.response.status)
    THEN [state |-> "threw", calls |-> client.calls, value |-> "none",
          error |-> [kind |-> "api", status |-> s.response.status,
                     body |-> s.response.body]]
    ELSE IF Parses(s.response.body)
    THEN [state |-> "returned", calls |-> client.calls, value |-> Decoded(shape),
          error |-> NoError]
    ELSE [state |-> "threw", calls |-> client.calls, value |-> "none",
          error |-> [kind |-> "syntax", status |-> -1, body |-> s.response.body]]

\* what JSON.parse can give for a JSON body sent to generateResponse():
\*   "text"            content[0].text (choices[0].message.content) is a string
\*   "no array"        no content (choices) member at all
\*   "no items"        content (choices) is []
\*   "item without text"  content[0] is e.g. a tool_use block: it has no text member
\*   "null text"       choices[0].message.content is null (tool call, refusal)
Envelopes == {"text", "no array", "no items", "item without text", "null text"}

\* data.content[0].text / data.choices[0].message.content: reading a member of
\* undefined throws a TypeError, a missing member reads as undefined
TextField(envelope) ==
    CASE envelope = "text" -> [throws |-> FALSE, value |-> "text"]
      [] envelope = "no array" -> [throws |-> TRUE, value |-> "none"]
      [] envelope = "no items" -> [throws |-> TRUE, value |-> "none"]
      [] envelope = "item without text" -> [throws |-> FALSE, value |-> "undefined"]
      [] envelope = "null text" -> [throws |-> FALSE, value |-> "null"]

\* generateResponse() after await httpsPost(...): a status >= 400 becomes
\* new Error(`... API Error [${status}]: ${body}`); otherwise the body is parsed
\* and the text member is returned
GenerateOutcome(s, envelope) ==
    IF s.state = "rejected"
    THEN [state |-> "threw", calls |-> client.calls, value |-> "none",
          error |-> [kind |-> "transport", status |-> -1, body |-> s.cause]]
    ELSE IF IsErrorStatus(s.response.status)
    THEN [state |-> "threw", calls |-> client.calls, value |-> "none",
          error |-> [kind |-> "api", status |-> s.response.status,
                     body |-> s.response.body]]
    ELSE IF ~Parses(s.response.body)
    THEN [state |-> "threw", calls |-> client.calls, value |-> "none",
          error |-> [kind |-> "syntax", status |-> -1, body |-> s.response.body]]
    ELSE IF TextField(envelope).throws
    THEN [state |-> "threw", calls |-> client.calls, value |-> "none",
          error |-> [kind |-> "type", status |-> -1, body |-> s.response.body]]
    ELSE [state |-> "returned", calls |-> client.calls,
          value |-> TextField(envelope).value, error |-> NoError]

CanRetryOffByOne(retries) == retries >= 0

\* if (retries > 0)
CanRetry(retries) == retries > 0

RetryDelayGrowing(retries) == BACKOFF_MS * (budget - retries + 1)

\* setTimeout(() => ..., 1000)
RetryDelay(retries) == BACKOFF_MS

\* setTimeout(() => { httpsRequest(url, options, retries - 1)... }, 1000)
ScheduleRetry(i, handler) ==
    [ retries |-> attemptLog[i].retries - 1,
      armedAt |-> clock,
      due     |-> clock + RetryDelay(attemptLog[i].retries),
      by      |-> i,
      handler |-> handler ]

\* the body shared by req.on('error', ...) and the req.setTimeout callback
RetryOrReject(i, handler, cause) ==
    IF CanRetry(attemptLog[i].retries)
    THEN /\ timers' = timers \cup {ScheduleRetry(i, handler)}
         /\ settled' = settled
    ELSE /\ timers' = timers
         /\ settled' = Reject(settled, cause, i)

\* the continuation of an await is a microtask: once the promise settled, the
\* caller resumes before the event loop runs another callback
ClientCaughtUp == client.state # "awaiting" \/ settled.state = "pending"

InitTransport ==
    /\ kind \in Kinds
    /\ budget \in 0..DEFAULT_RETRIES
    /\ clock = 0
    /\ attemptLog = << [ retries |-> budget, active |-> 0, phase |-> "sent",
                         outcome |-> "pending", response |-> NoResponse,
                         parent |-> 0, waited |-> 0, startedBefore |-> 0 ] >>
    /\ timers = {}
    /\ settled = Pending
    /\ client = [state |-> "awaiting", calls |-> 1, value |-> "none", error |-> NoError]

\* https.request's callback: the response headers arrived
ResponseStart(i) ==
    /\ ClientCaughtUp
    /\ attemptLog[i].phase = "sent"
    /\ attemptLog' = [attemptLog EXCEPT ![i].phase = "receiving", ![i].active = clock]
    /\ UNCHANGED <<kind, budget, clock, timers, settled, client, avars, cvars, nvars>>

\* res.on('end', () => resolve({ status: res.statusCode || 0, body: data }))
ResponseEnd(i, resp) ==
    /\ ClientCaughtUp
    /\ attemptLog[i].phase = "receiving"
    /\ attemptLog' = [attemptLog EXCEPT ![i] = Close(@, "closed", "response", resp)]
    /\ settled' = Resolve(settled, resp, i)
    /\ UNCHANGED <<kind, budget, clock, timers, client, avars, cvars, nvars>>

\* req.on('error', ...) for a connection-level failure (refused, reset, DNS)
ConnError(i) ==
    /\ ClientCaughtUp
    /\ attemptLog[i].phase \in {"sent", "receiving"}
    /\ attemptLog' = [attemptLog EXCEPT ![i] = Close(@, "closed", "error", NoResponse)]
    /\ RetryOrReject(i, "error", "connection error")
    /\ UNCHANGED <<kind, budget, clock, client, avars, cvars, nvars>>

\* the req.setTimeout callback: req.destroy(), then retry or reject.  Destroying
\* a request that has no response yet makes node emit 'error' (socket hang up)
\* on it; with a response under way the error goes to the response object.
Timeout(i) ==
    /\ ClientCaughtUp
    /\ attemptLog[i].phase \in {"sent", "receiving"}
    /\ clock >= attemptLog[i].active + TimeoutMs(kind)
    /\ attemptLog' = [attemptLog EXCEPT ![i] =
            Close(@, IF @.phase = "sent" THEN "destroyed" ELSE "closed",
                  "timeout", NoResponse)]
    /\ RetryOrReject(i, "timeout", "Request timeout")
    /\ UNCHANGED <<kind, budget, clock, client, avars, cvars, nvars>>

\* req.on('error', ...) for the 'error' that req.destroy() raised
SocketHangUp(i) ==
    /\ ClientCaughtUp
    /\ attemptLog[i].phase = "destroyed"
    /\ attemptLog' = [attemptLog EXCEPT ![i].phase = "closed"]
    /\ RetryOrReject(i, "error", "socket hang up")
    /\ UNCHANGED <<kind, budget, clock, client, avars, cvars, nvars>>

\* the setTimeout callback: httpsRequest(url, options, retries - 1)
StartRetry(t) ==
    /\ ClientCaughtUp
    /\ t \in timers
    /\ clock >= t.due
    /\ Len(attemptLog) < MaxAttempts
    /\ timers' = timers \ {t}
    /\ attemptLog' = Append(attemptLog, NewAttempt(t.retries, t.by, clock - t.armedAt))
    /\ UNCHANGED <<kind, budget, clock, settled, client, avars, cvars, nvars>>

\* MoltbookClient.request() resumes once the promise of httpsRequest() settled
RequestResumes(shape) ==
    /\ kind = "httpsRequest"
    /\ client.state = "awaiting"
    /\ settled.state # "pending"
    /\ client' = RequestOutcome(settled, shape)
    /\ UNCHANGED <<kind, budget, clock, attemptLog, timers, settled, avars, cvars, nvars>>

\* generateResponse() resumes once the promise of httpsPost() settled
GenerateResumes(envelope) ==
    /\ kind = "httpsPost"
    /\ client.state = "awaiting"
    /\ settled.state # "pending"
    /\ client' = GenerateOutcome(settled, envelope)
    /\ UNCHANGED <<kind, budget, clock, attemptLog, timers, settled, avars, cvars, nvars>>

\* what the event loop has to run before time passes
Deadlines ==
    {t.due : t \in timers}
        \cup {attemptLog[i].active + TimeoutMs(kind) :
                i \in {j \in Indexes : attemptLog[j].phase \in {"sent", "receiving"}}}

\* time passes: to the next timer or timeout, or by one network latency while
\* an attempt that was just sent (or just got its response headers) is waiting
Advance ==
    /\ ClientCaughtUp
    /\ \A i \in Indexes : attemptLog[i].phase # "destroyed"
    /\ \A d \in Deadlines : d > clock
    /\ \E target \in Deadlines \cup {clock + LatencyMs} :
          /\ \A d \in Deadlines : target <= d
          /\ target \notin Deadlines =>
                \E i \in Indexes : /\ attemptLog[i].phase \in {"sent", "receiving"}
                                   /\ attemptLog[i].active = clock
          /\ clock' = target
    /\ UNCHANGED <<kind, budget, attemptLog, timers, settled, client, avars, cvars, nvars>>

NextTransport ==
    \/ \E i \in Indexes : ResponseStart(i)
    \/ \E i \in Indexes : \E resp \in Responses : ResponseEnd(i, resp)
    \/ \E i \in Indexes : ConnError(i)
    \/ \E i \in Indexes : Timeout(i)
    \/ \E i \in Indexes : SocketHangUp(i)
    \/ \E t \in timers : StartRetry(t)
    \/ \E shape \in Shapes : RequestResumes(shape)
    \/ \E envelope \in Envelopes : GenerateResumes(envelope)
    \/ Advance

(***************************************************************************)
(* YiMoltAgent: state, gate and duplicate check                            *)
(***************************************************************************)

\* Date.now() when the process starts, in seconds since the epoch
Epoch == 1700000000
\* how far the clock moves in one step, and how many such steps are followed
TickStep == 900
MaxTicks == 2

\* POST_COOLDOWN_MS = 30 * 60 * 1000, counted in seconds like the clock
POST_COOLDOWN_MS == 30 * 60
\* const maxRetries = 5
maxRetries == 5
\* .slice(0, 80)
TITLE_MAX == 80

\* private lastPostTime: number = 0
InitialLastPostTimeNow == Epoch

InitialLastPostTime == 0

\* ---- titles are strings, modelled as sequences of UTF-16 code units ----

\* String.prototype.toLowerCase on the characters used here: A-Z, and the
\* Kelvin sign U+212A, whose lower case is k; the others have no lower case
toLowerCase(text) ==
    [i \in 1..Len(text) |->
        IF text[i] \in 65..90 THEN text[i] + 32
        ELSE IF text[i] = 8490 THEN 107
        ELSE text[i]]

\* the complement of the class [^a-z0-9一-鿿]
Kept(c) == c \in 97..122 \/ c \in 48..57 \/ c \in 19968..40959

slice(text, n) == SubSeq(text, 1, Min(n, Len(text)))

normalizeTitleCutFirst(text) == SelectSeq(toLowerCase(slice(text, TITLE_MAX)), Kept)

\* text.toLowerCase().replace(/[^a-z0-9一-鿿]/g, '').slice(0, 80)
normalizeTitle(text) == slice(SelectSeq(toLowerCase(text), Kept), TITLE_MAX)

\* 80 times "a" and one more character
LongTitle(last) == [i \in 1..(TITLE_MAX + 1) |-> IF i <= TITLE_MAX THEN 97 ELSE last]

\* the titles the generator and the server come up with:
\* "A" U+4E2D, "a " U+4E2D "!", "b7", "aaaa...ab", "aaaa...a7"
Titles ==
    { <<65, 20013>>, <<97, 32, 20013, 33>>, <<98, 55>>, LongTitle(98), LongTitle(55) }

\* the titles of the agent's earlier posts, as the server lists them
HistoryTitles == { <<97, 32, 20013, 33>>, LongTitle(55) }

NoTitle == <<>>

\* what the generator answers: a text with or without its TITLE: and CONTENT:
\* sections (response.match(/TITLE:\s*(.+)/), response.match(/CONTENT:\s*([\s\S]+)/))
GenResponses ==
    { [title |-> t, hasTitle |-> TRUE, hasContent |-> TRUE] : t \in Titles }
        \cup { [title |-> NoTitle, hasTitle |-> FALSE, hasContent |-> TRUE],
               [title |-> <<98, 55>>, hasTitle |-> TRUE, hasContent |-> FALSE] }

canPostAlways == TRUE

\* return Date.now() - this.lastPostTime >= this.POST_COOLDOWN_MS
canPost == now - lastPostTime >= POST_COOLDOWN_MS

isDuplicateRaw(title) == title \in recentPostTitles

\* this.recentPostTitles.has(this.normalizeTitle(title))
isDuplicate(title) == normalizeTitle(title) \in recentPostTitles

waitTimeElapsed == (now - lastPostTime + 59) \div 60

\* Math.ceil((POST_COOLDOWN_MS - (Date.now() - lastPostTime)) / 60000), in minutes
waitTime ==
    LET left == POST_COOLDOWN_MS - (now - lastPostTime)
    IN  (left + 59) \div 60

(***************************************************************************)
(* YiMoltAgent: heartbeat() and createOriginalPost()                       *)
(***************************************************************************)

\* the three YiMoltAgent classes: CodeBlog and MoltBook (both with the duplicate
\* filter and the retry loop) and src/src/agent.ts (one attempt, no filter)
Variants == {"codeblog", "moltbook", "agent"}

\* the class has recentPostTitles, loadRecentPosts() and the retry loop
HasFilter == variant # "agent"

\* heartbeat() has a catch of its own around this auxiliary call
CatchesAuxiliary == variant = "codeblog"

\* heartbeat()'s outer catch ends with throw error
Rethrows == variant # "agent"

\* the locals of one async call, and what it did so far
FreshRun(via) ==
    [ via        |-> via,        \* "heartbeat" or "direct" (createOriginalPost called alone)
      attempt    |-> 0,          \* the loop variable
      title      |-> NoTitle,    \* the title parsed in this attempt
      malformed  |-> 0,          \* generator answers without a TITLE: or CONTENT: section
      duplicates |-> 0,          \* well-formed answers whose fingerprint was already seen
      refused    |-> 0,          \* createPost calls the server refused as duplicates
      genCalls   |-> 0,          \* calls of ai.generateResponse
      createCalls |-> 0,         \* calls of client.createPost
      ctxFetches |-> 0,          \* context fetches made by createOriginalPost
      gateOpen   |-> FALSE,      \* what canPost() answered
      wait       |-> 0,          \* the reported wait, in minutes
      auxFailed  |-> FALSE,      \* an auxiliary fetch of this cycle failed
      rejections |-> 0,          \* createPost calls that failed for another reason
      refusedPrints |-> {},      \* fingerprints of the titles the server refused
      genFailures |-> 0,         \* generateResponse calls that failed
      seedDraws  |-> 0,          \* random seeds drawn (Math.random()) for the prompt
      hbFetches  |-> 0,          \* fetches made by heartbeat() and loadRecentPosts()
      fetched    |-> 0,          \* fetches (of heartbeat or context) that settled
      returned   |-> "none",     \* what createOriginalPost() returned: "post" or "null"
      outcome    |-> "none" ]    \* posted, cooldown, exhausted, rejected, unparsed,
                                 \* threw, swallowed

Cycles == DOMAIN pc

Resting(c) == pc[c] \in {"idle", "done", "threw"}

\* return post on success; return null at the closed gate, after a parse failure
\* (src/src/agent.ts), after a createPost failure and after the loop
ReturnValue(outcome) == IF outcome = "posted" THEN "post" ELSE "null"

\* createOriginalPost() returned to its caller (heartbeat() only logs the result)
Returned(c, r, outcome) ==
    /\ pc' = [pc EXCEPT ![c] = "done"]
    /\ run' = [run EXCEPT ![c] = [r EXCEPT !.outcome = outcome,
                                           !.returned = ReturnValue(outcome)]]

\* createOriginalPost() up to its first await: the gate, then the trending fetch
EnterCreateOriginalPost(c, r) ==
    IF ~canPost
    THEN Returned(c, [r EXCEPT !.wait = waitTime], "cooldown")
    ELSE /\ pc' = [pc EXCEPT ![c] = "ctxTrending"]
         /\ run' = [run EXCEPT ![c] = [r EXCEPT !.gateOpen = TRUE, !.ctxFetches = 1]]

MayStartSerialized(c) == \A d \in Cycles : Resting(d)

\* setInterval(async () => { await agent.heartbeat() }, intervalMs): the timer
\* fires whether or not an earlier cycle is still running; c is a free slot
MayStart(c) == Resting(c)

HeartbeatFetchesTogether(c) ==
    /\ MayStart(c)
    /\ pc' = [pc EXCEPT ![c] = IF HasFilter THEN "load" ELSE "profile"]
    /\ run' = [run EXCEPT ![c] = [FreshRun("heartbeat") EXCEPT !.hbFetches = 2]]
    /\ UNCHANGED <<now, variant, lastPostTime, recentPostTitles, posts, tvars, cvars, nvars>>

\* heartbeat(): up to its first await, in loadRecentPosts() (src/src/agent.ts:
\* on getAgentProfile())
Heartbeat(c) ==
    /\ MayStart(c)
    /\ pc' = [pc EXCEPT ![c] = IF HasFilter THEN "load" ELSE "profile"]
    /\ run' = [run EXCEPT ![c] = [FreshRun("heartbeat") EXCEPT !.hbFetches = 1]]
    /\ UNCHANGED <<now, variant, lastPostTime, recentPostTitles, posts, tvars, cvars, nvars>>

\* createOriginalPost() called on its own
CreateOriginalPost(c) ==
    /\ MayStart(c)
    /\ EnterCreateOriginalPost(c, FreshRun("direct"))
    /\ UNCHANGED <<now, variant, lastPostTime, recentPostTitles, posts, tvars, cvars, nvars>>

\* a failure inside heartbeat()'s outer try: caught and logged; CodeBlog and
\* MoltBook throw it again, src/src/agent.ts lets heartbeat() return
HeartbeatThrows(c, r) ==
    IF Rethrows
    THEN /\ pc' = [pc EXCEPT ![c] = "threw"]
         /\ run' = [run EXCEPT ![c] = [r EXCEPT !.outcome = "threw"]]
    ELSE /\ pc' = [pc EXCEPT ![c] = "done"]
         /\ run' = [run EXCEPT ![c] = [r EXCEPT !.outcome = "swallowed"]]

SeededAfresh(history) == {normalizeTitle(t) : t \in history}

\* for (const post of posts) this.recentPostTitles.add(this.normalizeTitle(post.title))
Seeded(history) == recentPostTitles \cup {normalizeTitle(t) : t \in history}

\* loadRecentPosts() on MoltBook: getAgentProfile() answered, searchPosts() is next
LoadProfileReturns(c) ==
    /\ pc[c] = "load"
    /\ variant = "moltbook"
    /\ pc' = [pc EXCEPT ![c] = "loadSearch"]
    /\ run' = [run EXCEPT ![c].fetched = @ + 1, ![c].hbFetches = @ + 1]
    /\ UNCHANGED <<now, variant, lastPostTime, recentPostTitles, posts, tvars, cvars, nvars>>

\* loadRecentPosts(): the history arrived; every title's fingerprint is added
LoadReturns(c, history) ==
    /\ \/ pc[c] = "load" /\ variant = "codeblog"
       \/ pc[c] = "loadSearch"
    /\ recentPostTitles' = Seeded(history)
    /\ pc' = [pc EXCEPT ![c] = "profile"]
    /\ run' = [run EXCEPT ![c].fetched = @ + 1, ![c].hbFetches = @ + 1]
    /\ UNCHANGED <<now, variant, lastPostTime, posts, tvars, cvars, nvars>>

LoadThrowsEscapes(c) ==
    /\ pc[c] \in {"load", "loadSearch"}
    /\ HeartbeatThrows(c, [run[c] EXCEPT !.auxFailed = TRUE, !.fetched = @ + 1])
    /\ UNCHANGED <<now, variant, lastPostTime, recentPostTitles, posts, tvars, cvars, nvars>>

\* loadRecentPosts(): a fetch failed; the catch logs it and the method returns
LoadThrows(c) ==
    /\ pc[c] \in {"load", "loadSearch"}
    /\ pc' = [pc EXCEPT ![c] = "profile"]
    /\ run' = [run EXCEPT ![c].auxFailed = TRUE, ![c].fetched = @ + 1,
                          ![c].hbFetches = @ + 1]
    /\ UNCHANGED <<now, variant, lastPostTime, recentPostTitles, posts, tvars, cvars, nvars>>

\* heartbeat(): getAgentProfile() answered
ProfileReturns(c) ==
    /\ pc[c] = "profile"
    /\ pc' = [pc EXCEPT ![c] = "trending"]
    /\ run' = [run EXCEPT ![c].fetched = @ + 1, ![c].hbFetches = @ + 1]
    /\ UNCHANGED <<now, variant, lastPostTime, recentPostTitles, posts, tvars, cvars, nvars>>

\* heartbeat(): getAgentProfile() failed; only CodeBlog catches it on the spot
ProfileThrows(c) ==
    /\ pc[c] = "profile"
    /\ LET r == [run[c] EXCEPT !.auxFailed = TRUE, !.fetched = @ + 1]
       IN  IF CatchesAuxiliary
           THEN /\ pc' = [pc EXCEPT ![c] = "trending"]
                /\ run' = [run EXCEPT ![c] = [r EXCEPT !.hbFetches = @ + 1]]
           ELSE HeartbeatThrows(c, r)
    /\ UNCHANGED <<now, variant, lastPostTime, recentPostTitles, posts, tvars, cvars, nvars>>

\* heartbeat(): after the trending fetch, if (this.canPost()) createOriginalPost()
HeartbeatGate(c, r) ==
    IF canPost
    THEN EnterCreateOriginalPost(c, r)
    ELSE /\ pc' = [pc EXCEPT ![c] = "done"]
         /\ run' = [run EXCEPT ![c] = [r EXCEPT !.outcome = "cooldown", !.wait = waitTime]]

\* heartbeat(): the trending fetch answered
TrendingReturns(c) ==
    /\ pc[c] = "trending"
    /\ HeartbeatGate(c, [run[c] EXCEPT !.fetched = @ + 1])
    /\ UNCHANGED <<now, variant, lastPostTime, recentPostTitles, posts, tvars, cvars, nvars>>

\* heartbeat(): the trending fetch failed; only CodeBlog catches it on the spot
TrendingThrows(c) ==
    /\ pc[c] = "trending"
    /\ LET r == [run[c] EXCEPT !.auxFailed = TRUE, !.fetched = @ + 1]
       IN  IF CatchesAuxiliary THEN HeartbeatGate(c, r) ELSE HeartbeatThrows(c, r)
    /\ UNCHANGED <<now, variant, lastPostTime, recentPostTitles, posts, tvars, cvars, nvars>>

\* createOriginalPost(): the trending context arrived or failed (caught either
\* way); the fetch of the agent's own posts is next, or, in src/src/agent.ts,
\* the call of the generator
ContextTrendingSettles(c, failed) ==
    /\ pc[c] = "ctxTrending"
    /\ LET r == [run[c] EXCEPT !.auxFailed = @ \/ failed, !.fetched = @ + 1]
       IN  IF HasFilter
           THEN /\ pc' = [pc EXCEPT ![c] = "ctxMine"]
                /\ run' = [run EXCEPT ![c] = [r EXCEPT !.ctxFetches = @ + 1]]
           ELSE /\ pc' = [pc EXCEPT ![c] = "gen"]
                /\ run' = [run EXCEPT ![c] = [r EXCEPT !.genCalls = 1]]
    /\ UNCHANGED <<now, variant, lastPostTime, recentPostTitles, posts, tvars, cvars, nvars>>

\* createOriginalPost() on MoltBook: getAgentProfile() answered, searchPosts() is next
ContextProfileReturns(c) ==
    /\ pc[c] = "ctxMine"
    /\ variant = "moltbook"
    /\ pc' = [pc EXCEPT ![c] = "ctxSearch"]
    /\ run' = [run EXCEPT ![c].ctxFetches = @ + 1, ![c].fetched = @ + 1]
    /\ UNCHANGED <<now, variant, lastPostTime, recentPostTitles, posts, tvars, cvars, nvars>>

\* createOriginalPost(): the own-posts context arrived or failed (caught either
\* way); the seed is drawn, the prompt is built, both once, and the first
\* attempt calls the generator with it
ContextMineSettles(c, failed) ==
    /\ pc[c] \in {"ctxMine", "ctxSearch"}
    /\ pc' = [pc EXCEPT ![c] = "gen"]
    /\ run' = [run EXCEPT ![c].genCalls = 1, ![c].auxFailed = @ \/ failed,
                          ![c].fetched = @ + 1, ![c].seedDraws = 1]
    /\ UNCHANGED <<now, variant, lastPostTime, recentPostTitles, posts, tvars, cvars, nvars>>

LoopBoundOneLess(attempt) == attempt < maxRetries - 1

\* attempt < maxRetries
LoopBound(attempt) == attempt < maxRetries

ContinueSameAttempt(c, r) ==
    /\ pc' = [pc EXCEPT ![c] = "gen"]
    /\ run' = [run EXCEPT ![c] = [r EXCEPT !.title = NoTitle, !.genCalls = @ + 1]]

\* continue: attempt++, and either the next generateResponse() or the end of the loop
Continue(c, r) ==
    LET r1 == [r EXCEPT !.attempt = @ + 1, !.title = NoTitle]
    IN  IF LoopBound(r1.attempt)
        THEN /\ pc' = [pc EXCEPT ![c] = "gen"]
             /\ run' = [run EXCEPT ![c] = [r1 EXCEPT !.genCalls = @ + 1]]
        ELSE Returned(c, r1, "exhausted")

DuplicateCheckInverted(title) == ~isDuplicate(title)

DuplicateCheckSkipped(title) == FALSE

\* if (this.isDuplicate(title)) continue
DuplicateCheck(title) == isDuplicate(title)

ParseFailsTitleOnly(resp) == ~resp.hasTitle

\* if (!titleMatch || !contentMatch)
ParseFails(resp) == ~resp.hasTitle \/ ~resp.hasContent

\* what the generator sent, whatever the loop makes of it
WellFormed(resp) == resp.hasTitle /\ resp.hasContent
FingerprintSeen(title) == normalizeTitle(title) \in recentPostTitles
Observe(r, resp) ==
    [r EXCEPT !.malformed = IF WellFormed(resp) THEN @ ELSE @ + 1,
              !.duplicates = IF WellFormed(resp) /\ FingerprintSeen(resp.title)
                             THEN @ + 1 ELSE @]

\* createOriginalPost(): generateResponse() answered; parse, check, submit
GenReturns(c, resp) ==
    /\ pc[c] = "gen"
    /\ LET r == [Observe(run[c], resp) EXCEPT !.title = resp.title]
       IN  IF ParseFails(resp)
           THEN IF HasFilter THEN Continue(c, r) ELSE Returned(c, r, "unparsed")
           ELSE IF HasFilter /\ DuplicateCheck(resp.title)
           THEN Continue(c, r)
           ELSE /\ pc' = [pc EXCEPT ![c] = "create"]
                /\ run' = [run EXCEPT ![c] = [r EXCEPT !.createCalls = @ + 1]]
    /\ UNCHANGED <<now, variant, lastPostTime, recentPostTitles, posts, tvars, cvars, nvars>>

GenThrowsRetried(c) ==
    /\ pc[c] = "gen"
    /\ Continue(c, [run[c] EXCEPT !.genFailures = @ + 1])
    /\ UNCHANGED <<now, variant, lastPostTime, recentPostTitles, posts, tvars, cvars, nvars>>

\* createOriginalPost(): generateResponse() failed; nothing in createOriginalPost()
\* catches it, so it reaches heartbeat()'s outer catch, or the direct caller
GenThrows(c) ==
    /\ pc[c] = "gen"
    /\ LET r == [run[c] EXCEPT !.genFailures = @ + 1]
       IN  IF r.via = "heartbeat"
           THEN HeartbeatThrows(c, r)
           ELSE /\ pc' = [pc EXCEPT ![c] = "threw"]
                /\ run' = [run EXCEPT ![c] = [r EXCEPT !.outcome = "threw"]]
    /\ UNCHANGED <<now, variant, lastPostTime, recentPostTitles, posts, tvars, cvars, nvars>>

RecordedAtStale(c) == lastPostTime

\* this.lastPostTime = Date.now()
RecordedAt(c) == now

\* createOriginalPost(): createPost() answered; the post is recorded and returned
CreateReturns(c) ==
    /\ pc[c] = "create"
    /\ lastPostTime' = RecordedAt(c)
    /\ recentPostTitles' = IF HasFilter
                           THEN recentPostTitles \cup {normalizeTitle(run[c].title)}
                           ELSE recentPostTitles
    /\ posts' = Append(posts, [title |-> run[c].title, at |-> now])
    /\ Returned(c, run[c], "posted")
    /\ UNCHANGED <<now, variant, tvars, cvars, nvars>>

\* createOriginalPost(): createPost() failed; error.message.includes('duplicate')
\* decides between the next attempt and giving up
AfterCreateErrorAborts(c, r, duplicate) == Returned(c, r, "rejected")

AfterCreateErrorRetries(c, r, duplicate) == Continue(c, r)

\* if (error instanceof Error && error.message.includes('duplicate')) continue;
\* return null  (src/src/agent.ts: return null)
AfterCreateError(c, r, duplicate) ==
    IF HasFilter /\ duplicate THEN Continue(c, r) ELSE Returned(c, r, "rejected")

SeenAfterFailureRecorded(c) == recentPostTitles \cup {normalizeTitle(run[c].title)}

\* the catch block of createPost() leaves this.recentPostTitles alone
SeenAfterFailure(c) == recentPostTitles

CreateThrows(c, duplicate) ==
    /\ pc[c] = "create"
    /\ recentPostTitles' = SeenAfterFailure(c)
    /\ LET r == IF duplicate
                THEN [run[c] EXCEPT !.refused = @ + 1,
                                    !.refusedPrints = @ \cup {normalizeTitle(run[c].title)}]
                ELSE [run[c] EXCEPT !.rejections = @ + 1]
       IN  AfterCreateError(c, r, duplicate)
    /\ UNCHANGED <<now, variant, lastPostTime, posts, tvars, cvars, nvars>>

\* time passes
Tick ==
    /\ now < Epoch + MaxTicks * TickStep
    /\ now' = now + TickStep
    /\ UNCHANGED <<variant, lastPostTime, recentPostTitles, pc, run, posts, tvars, cvars, nvars>>

(***************************************************************************)
(* YiMoltAgent: canComment() and commentOnPost()                           *)
(***************************************************************************)

\* private readonly COMMENT_LIMIT = 50
COMMENT_LIMIT == 50
\* COMMENT_RESET_MS = 60 * 60 * 1000, counted in seconds like the clock
COMMENT_RESET_MS == 60 * 60
\* how far the clock moves in one step of SpecComment, and how many such steps
CommentTickStep == 1800
MaxCommentTicks == 3

Callers == DOMAIN cpc

CallerResting(k) == cpc[k] \in {"idle", "done", "limited", "threw"}

\* if (Date.now() - this.commentResetTime >= this.COMMENT_RESET_MS)
WindowElapsed(start) == now - start >= COMMENT_RESET_MS

UnderLimitInclusive(count) == count <= COMMENT_LIMIT

\* return this.commentCount < this.COMMENT_LIMIT
UnderLimit(count) == count < COMMENT_LIMIT

\* canComment(): the fields after the reset rule, and the answer
CountAfterReset == IF WindowElapsed(commentResetTime) THEN 0 ELSE commentCount
ResetTimeAfterReset == IF WindowElapsed(commentResetTime) THEN now ELSE commentResetTime
canComment == UnderLimit(CountAfterReset)

\* what an observer of the calls notes: the window by the reset rule, the
\* comments the server accepted in it, and the latest answer of canComment()
\* with the number of comments accepted in the window when it was given
Asked(answer) ==
    LET fresh == WindowElapsed(comments.windowStart)
    IN  [comments EXCEPT !.windowStart = IF fresh THEN now ELSE @,
                         !.accepted = IF fresh THEN 0 ELSE @,
                         !.atAsk = IF fresh THEN 0 ELSE comments.accepted,
                         !.asked = TRUE,
                         !.answer = answer]

\* canComment() called on its own
CanComment ==
    /\ \A k \in Callers : CallerResting(k)
    /\ commentCount' = CountAfterReset
    /\ commentResetTime' = ResetTimeAfterReset
    /\ comments' = Asked(canComment)
    /\ UNCHANGED <<cpc, now, variant, lastPostTime, recentPostTitles, pc, run, posts, tvars, nvars>>

\* commentOnPost(): the gate, then the fetch of the post's comments; a call can
\* be made while another one is awaiting
CommentOnPost(k) ==
    /\ CallerResting(k)
    /\ commentCount' = CountAfterReset
    /\ commentResetTime' = ResetTimeAfterReset
    /\ comments' = Asked(canComment)
    /\ cpc' = [cpc EXCEPT ![k] = IF canComment THEN "getPost" ELSE "limited"]
    /\ UNCHANGED <<now, variant, lastPostTime, recentPostTitles, pc, run, posts, tvars, nvars>>

\* commentOnPost(): getPost() answered; the generator is next
CommentGetPostReturns(k) ==
    /\ cpc[k] = "getPost"
    /\ cpc' = [cpc EXCEPT ![k] = "gen"]
    /\ UNCHANGED <<commentCount, commentResetTime, comments,
                   now, variant, lastPostTime, recentPostTitles, pc, run, posts, tvars, nvars>>

\* commentOnPost(): generateResponse() answered; createComment() is next
CommentGenReturns(k) ==
    /\ cpc[k] = "gen"
    /\ cpc' = [cpc EXCEPT ![k] = "create"]
    /\ UNCHANGED <<commentCount, commentResetTime, comments,
                   now, variant, lastPostTime, recentPostTitles, pc, run, posts, tvars, nvars>>

\* commentOnPost(): getPost() or generateResponse() failed; nothing catches it
CommentThrows(k) ==
    /\ cpc[k] \in {"getPost", "gen"}
    /\ cpc' = [cpc EXCEPT ![k] = "threw"]
    /\ UNCHANGED <<commentCount, commentResetTime, comments,
                   now, variant, lastPostTime, recentPostTitles, pc, run, posts, tvars, nvars>>

\* this.commentCount++
Counted(count) == count + 1

\* commentOnPost(): createComment() answered; the comment is counted and returned
CreateCommentReturns(k) ==
    /\ cpc[k] = "create"
    /\ commentCount' = Counted(commentCount)
    /\ comments' = [comments EXCEPT !.accepted = @ + 1]
    /\ cpc' = [cpc EXCEPT ![k] = "done"]
    /\ UNCHANGED <<commentResetTime,
                   now, variant, lastPostTime, recentPostTitles, pc, run, posts, tvars, nvars>>

CountAfterFailureCounted(count) == count + 1

\* the catch block of createComment() leaves this.commentCount alone
CountAfterFailure(count) == count

\* commentOnPost(): createComment() failed; the catch logs it and returns null
CreateCommentThrows(k) ==
    /\ cpc[k] = "create"
    /\ cpc' = [cpc EXCEPT ![k] = "done"]
    /\ commentCount' = CountAfterFailure(commentCount)
    /\ UNCHANGED <<commentResetTime, comments,
                   now, variant, lastPostTime, recentPostTitles, pc, run, posts, tvars, nvars>>

\* time passes
CommentTick ==
    /\ now < Epoch + MaxCommentTicks * CommentTickStep
    /\ now' = now + CommentTickStep
    /\ UNCHANGED <<commentCount, commentResetTime, comments, cpc,
                   variant, lastPostTime, recentPostTitles, pc, run, posts, tvars, nvars>>

\* private commentCount: number = 0; private commentResetTime: number = Date.now()
InitComment ==
    /\ commentCount = 0
    /\ commentResetTime = Epoch
    /\ cpc = [k \in {1} |-> "idle"]
    /\ comments = [windowStart |-> Epoch, accepted |-> 0, atAsk |-> 0,
                   asked |-> FALSE, answer |-> FALSE]

\* two callers of commentOnPost() on one agent
InitCommentOverlap ==
    /\ commentCount = 0
    /\ commentResetTime = Epoch
    /\ cpc = [k \in {1, 2} |-> "idle"]
    /\ comments = [windowStart |-> Epoch, accepted |-> 0, atAsk |-> 0,
                   asked |-> FALSE, answer |-> FALSE]

\* the agent of SpecComment (the MoltBook class has commentOnPost): constructed,
\* no heartbeat running
AgentResting ==
    /\ now = Epoch
    /\ variant = "moltbook"
    /\ lastPostTime = InitialLastPostTime
    /\ recentPostTitles = {}
    /\ pc = <<>>
    /\ run = <<>>
    /\ posts = <<>>

NextComment ==
    \/ CanComment
    \/ \E k \in Callers : CommentOnPost(k)
    \/ \E k \in Callers : CommentGetPostReturns(k)
    \/ \E k \in Callers : CommentGenReturns(k)
    \/ \E k \in Callers : CommentThrows(k)
    \/ \E k \in Callers : CreateCommentReturns(k)
    \/ \E k \in Callers : CreateCommentThrows(k)
    \/ CommentTick

InitAgent ==
    /\ now = Epoch
    /\ variant \in Variants
    /\ lastPostTime = InitialLastPostTime
    /\ recentPostTitles = {}
    /\ pc = [c \in {1} |-> "idle"]
    /\ run = [c \in {1} |-> FreshRun("none")]
    /\ posts = <<>>

AgentIdle ==
    /\ now = 0
    /\ variant = "codeblog"
    /\ lastPostTime = 0
    /\ recentPostTitles = {}
    /\ pc = <<>>
    /\ run = <<>>
    /\ posts = <<>>

CommentIdle ==
    /\ commentCount = 0
    /\ commentResetTime = 0
    /\ cpc = <<>>
    /\ comments = [windowStart |-> 0, accepted |-> 0, atAsk |-> 0,
                   asked |-> FALSE, answer |-> FALSE]

FingerprintIdle ==
    /\ titles = <<>>
    /\ prints = <<>>

TransportIdle ==
    /\ kind = "httpsRequest"
    /\ budget = 0
    /\ clock = 0
    /\ attemptLog = <<>>
    /\ timers = {}
    /\ settled = Pending
    /\ client = [state |-> "none", calls |-> 0, value |-> "none", error |-> NoError]

Next ==
    \/ \E c \in Cycles : Heartbeat(c)
    \/ \E c \in Cycles : CreateOriginalPost(c)
    \/ \E c \in Cycles : LoadProfileReturns(c)
    \/ \E c \in Cycles : \E h \in SUBSET HistoryTitles : LoadReturns(c, h)
    \/ \E c \in Cycles : LoadThrows(c)
    \/ \E c \in Cycles : ProfileReturns(c)
    \/ \E c \in Cycles : ProfileThrows(c)
    \/ \E c \in Cycles : TrendingReturns(c)
    \/ \E c \in Cycles : TrendingThrows(c)
    \/ \E c \in Cycles : \E failed \in BOOLEAN : ContextTrendingSettles(c, failed)
    \/ \E c \in Cycles : ContextProfileReturns(c)
    \/ \E c \in Cycles : \E failed \in BOOLEAN : ContextMineSettles(c, failed)
    \/ \E c \in Cycles : \E resp \in GenResponses : GenReturns(c, resp)
    \/ \E c \in Cycles : GenThrows(c)
    \/ \E c \in Cycles : CreateReturns(c)
    \/ \E c \in Cycles : \E duplicate \in BOOLEAN : CreateThrows(c, duplicate)
    \/ Tick

InitT == InitTransport /\ AgentIdle /\ CommentIdle /\ FingerprintIdle
SpecTransport == InitT /\ [][NextTransport]_vars

\* a budget whose every retry is followed to its end: a failed attempt starts at
\* most two retries, so budget b takes at most 2^(b+1) - 1 attempts
FollowedToTheEnd == 2 ^ (budget + 1) - 1 <= MaxAttempts

\* every physical attempt eventually ends in a response, a connection error or
\* a timeout; the event loop runs the callbacks that are due, lets time pass
\* and resumes the caller
AttemptStep ==
    \E i \in Indexes :
        \/ ResponseStart(i)
        \/ \E resp \in Responses : ResponseEnd(i, resp)
        \/ ConnError(i)
        \/ Timeout(i)
        \/ SocketHangUp(i)
TimerStep == \E t \in timers : StartRetry(t)
ClientStep ==
    \/ \E shape \in Shapes : RequestResumes(shape)
    \/ \E envelope \in Envelopes : GenerateResumes(envelope)
FairTransport ==
    /\ WF_vars(AttemptStep)
    /\ WF_vars(TimerStep)
    /\ WF_vars(ClientStep)
    /\ WF_vars(Advance)

InitL == InitTransport /\ FollowedToTheEnd /\ AgentIdle /\ CommentIdle /\ FingerprintIdle
SpecTransportLive == InitL /\ [][NextTransport]_vars /\ FairTransport

Init == InitAgent /\ TransportIdle /\ CommentIdle /\ FingerprintIdle
Spec == Init /\ [][Next]_vars

InitC == InitComment /\ AgentResting /\ TransportIdle /\ FingerprintIdle
SpecComment == InitC /\ [][NextComment]_vars

InitCO == InitCommentOverlap /\ AgentResting /\ TransportIdle /\ FingerprintIdle
SpecCommentOverlap == InitCO /\ [][NextComment]_vars

(***************************************************************************)
(* Two heartbeat cycles on one agent: the first call of heartbeat() and a  *)
(* firing of the setInterval timer, or two firings, on CodeBlog, with      *)
(* every fetch and the generator answering; createPost() may be refused as *)
(* a duplicate.                                                            *)
(***************************************************************************)

\* the generator's answers followed here: two titles with one fingerprint and
\* a third with another
OverlapResponses ==
    { [title |-> t, hasTitle |-> TRUE, hasContent |-> TRUE] :
        t \in { <<65, 20013>>, <<97, 32, 20013, 33>>, <<98, 55>> } }

InitOverlap ==
    /\ now = Epoch
    /\ variant = "codeblog"
    /\ lastPostTime = InitialLastPostTime
    /\ recentPostTitles = {}
    /\ pc = [c \in {1, 2} |-> "idle"]
    /\ run = [c \in {1, 2} |-> FreshRun("none")]
    /\ posts = <<>>

NextOverlap ==
    \/ \E c \in Cycles : Heartbeat(c)
    \/ \E c \in Cycles : LoadReturns(c, {})
    \/ \E c \in Cycles : ProfileReturns(c)
    \/ \E c \in Cycles : TrendingReturns(c)
    \/ \E c \in Cycles : ContextTrendingSettles(c, FALSE)
    \/ \E c \in Cycles : ContextMineSettles(c, FALSE)
    \/ \E c \in Cycles : \E resp \in OverlapResponses : GenReturns(c, resp)
    \/ \E c \in Cycles : CreateReturns(c)
    \/ \E c \in Cycles : CreateThrows(c, TRUE)
    \/ Tick

InitO == InitOverlap /\ TransportIdle /\ CommentIdle /\ FingerprintIdle
SpecOverlap == InitO /\ [][NextOverlap]_vars

(***************************************************************************)
(* normalizeTitle() as a function of its argument                          *)
(***************************************************************************)

\* how many characters the short titles have at most
MaxTitleLen == 2

\* the characters of the titles: "A", "a", " ", "7", U+4E2D (a Han ideograph),
\* the Kelvin sign U+212A and U+A000 (the first character after the Han range)
Alphabet == {65, 97, 32, 55, 20013, 8490, 40960}

RECURSIVE Strings(_)
Strings(n) ==
    IF n = 0 THEN {<<>>}
    ELSE LET shorter == Strings(n - 1)
         IN  shorter \cup {Append(t, c) : t \in {u \in shorter : Len(u) = n - 1},
                                          c \in Alphabet}

\* a title of TITLE_MAX - 1 times "a" and then t: it reaches the cut of slice(0, 80)
Padded(t) == [i \in 1..(TITLE_MAX - 1) |-> 97] \o t

\* the pairs of titles normalizeTitle() is applied to: two short titles, or two
\* titles that reach the cut
TitleInputs ==
    LET short == Strings(MaxTitleLen)
        long  == {Padded(t) : t \in short}
    IN  (short \X short) \cup (long \X long)

InitFingerprint ==
    /\ titles \in TitleInputs
    /\ prints = <<>>

\* this.normalizeTitle(title), for both titles
Normalize ==
    /\ prints = <<>>
    /\ prints' = <<normalizeTitle(titles[1]), normalizeTitle(titles[2])>>
    /\ UNCHANGED <<titles, tvars, avars, cvars>>

NextFingerprint == Normalize

InitF == InitFingerprint /\ TransportIdle /\ AgentIdle /\ CommentIdle
SpecFingerprint == InitF /\ [][NextFingerprint]_vars

(***************************************************************************)
(* Claims about the transport (checked under SpecTransport)                *)
(***************************************************************************)

Ended(i) == attemptLog[i].phase = "closed"

\* every physical attempt made so far failed with a connection error, or is still out
OnlyConnErrors ==
    \A i \in Indexes : attemptLog[i].outcome \in {"error", "pending"}

\* nothing of the logical call is left to run
Quiet == timers = {} /\ \A i \in Indexes : Ended(i)

\* C1: a logical call started with retry budget r makes at most r + 1 physical
\* attempts, whatever mix of connection errors, timeouts and responses it meets.
C1_AtMostBudgetPlusOneAttempts == Len(attemptLog) <= budget + 1

\* C2: when every physical attempt fails with a connection error, the call is
\* rejected with the error of the last attempt, after exactly budget + 1 attempts
\* (and never more than that on the way).
C2_ExhaustedAfterBudgetPlusOne ==
    OnlyConnErrors =>
        /\ Len(attemptLog) <= budget + 1
        /\ settled.state # "resolved"
        /\ settled.state = "rejected" =>
              /\ Len(attemptLog) = budget + 1
              /\ settled.cause = "connection error"
              /\ settled.by = Len(attemptLog)
        /\ Quiet => settled.state = "rejected"

C2_Witness ==
    /\ budget = DEFAULT_RETRIES
    /\ Len(attemptLog) = DEFAULT_RETRIES + 1
    /\ \A i \in Indexes : attemptLog[i].outcome = "error"
    /\ settled.state = "rejected"

\* budget 3, a connection error on the first two attempts, a response on the third
TwoErrorsThenResponse ==
    /\ budget = DEFAULT_RETRIES
    /\ Len(attemptLog) >= 3
    /\ attemptLog[1].outcome = "error"
    /\ attemptLog[2].outcome = "error"
    /\ attemptLog[3].outcome = "response"

\* C3: with budget 3, connection errors on the first two attempts and a response
\* on the third, the call resolves with that response after exactly 3 attempts,
\* and each retry starts exactly one backoff interval (1000 ms, the same for
\* every retry) after the failure of the attempt before it.
C3_ThirdAttemptSucceeds ==
    TwoErrorsThenResponse =>
        /\ settled.state = "resolved"
        /\ settled.response = attemptLog[3].response
        /\ settled.by = 3
        /\ Len(attemptLog) = 3
        /\ timers = {}
        /\ attemptLog[2].parent = 1 /\ attemptLog[2].waited = BACKOFF_MS
        /\ attemptLog[3].parent = 2 /\ attemptLog[3].waited = BACKOFF_MS

C3_Witness == TwoErrorsThenResponse /\ clock > 2 * BACKOFF_MS

\* C4: whenever a physical attempt yields an HTTP response, whatever its status,
\* the caller gets that status and body, and no physical attempt is started
\* after it.
C4_ResponseIsReturnedAndFinal ==
    \A i \in Indexes :
        attemptLog[i].outcome = "response" =>
            /\ settled.state = "resolved"
            /\ settled.response = attemptLog[i].response
            /\ Len(attemptLog) = attemptLog[i].startedBefore

\* the cause a failed attempt hands to reject(...)
CauseOf(a) == IF a.outcome = "timeout" THEN "Request timeout" ELSE "connection error"

\* C28: once the retry budget of a logical call is used up, the error the call
\* fails with is the one of the last physical attempt made (its connection
\* error, or a timeout when that attempt timed out), never the one of an
\* earlier attempt.
C28_ErrorOfLastAttempt ==
    (settled.state = "rejected" /\ Quiet) =>
        /\ settled.by = Len(attemptLog)
        /\ settled.cause = CauseOf(attemptLog[Len(attemptLog)])

\* C20: a client operation makes exactly one logical transport call, and when
\* that call returns a status >= 400 the operation fails with the API error that
\* carries this status and body; the operation succeeds only on a status < 400.
C20_ClientFailsOnErrorStatus ==
    /\ client.calls = 1
    /\ (client.state # "awaiting" /\ settled.state = "resolved"
           /\ settled.response.status >= 400) =>
          /\ client.state = "threw"
          /\ client.error = [kind |-> "api", status |-> settled.response.status,
                             body |-> settled.response.body]
    /\ client.state = "returned" =>
          settled.state = "resolved" /\ settled.response.status < 400

\* the server answered 404 and request() threw
C20_Witness ==
    /\ client.state = "threw"
    /\ client.error.kind = "api"
    /\ client.error.status = 404
    /\ Len(attemptLog) = 1

\* C21: generateResponse() fails with the API error whenever the status is
\* >= 400, fails whenever the text member cannot be located in the decoded
\* body, and a value it returns as its result is always a text.
C21_GenerateReturnsTextOrFails ==
    kind = "httpsPost" =>
        /\ (client.state # "awaiting" /\ settled.state = "resolved"
               /\ settled.response.status >= 400) =>
              client.state = "threw" /\ client.error.kind = "api"
        /\ client.state = "returned" => client.value = "text"

\* C31: a client operation that got a status < 400 with a body that is not of
\* the shape the operation expects fails with a decode error, without another
\* transport call, and what an operation returns as its result is always of
\* the expected shape.
C31_WrongShapeIsDecodeError ==
    kind = "httpsRequest" =>
        /\ client.state = "returned" => client.value = Decoded("expected")
        /\ (client.state = "threw" /\ client.error.kind = "syntax") =>
              client.calls = 1

\* the physical attempts that are on the network
InFlight == {i \in Indexes : attemptLog[i].phase \in {"sent", "receiving"}}

\* the retries (waiting or started) that attempt i scheduled
RetriesOf(i) ==
    Cardinality({t \in timers : t.by = i})
        + Cardinality({j \in Indexes : attemptLog[j].parent = i})

\* C35: at most one physical attempt of a logical call is in flight at any
\* time, and a failed attempt schedules at most one retry, also when it timed
\* out and its request was destroyed.
C35_OneAttemptInFlight ==
    /\ Cardinality(InFlight) <= 1
    /\ \A i \in Indexes : RetriesOf(i) <= 1

\* the attempts that ended with a response
Answered == {i \in Indexes : attemptLog[i].outcome = "response"}

\* what the caller got is the response of an attempt that produced one, if an
\* attempt did, and the failure of the attempt made last otherwise
DeliveredOutcome ==
    IF Answered # {}
    THEN /\ settled.state = "resolved"
         /\ settled.by \in Answered
         /\ settled.response = attemptLog[settled.by].response
    ELSE /\ settled.state = "rejected"
         /\ settled.by = Len(attemptLog)
         /\ settled.cause = CauseOf(attemptLog[Len(attemptLog)])

\* C38: when every physical attempt ends and every backoff timer fires, the
\* logical call eventually settles, it settles once (what it settled with never
\* changes), and what the caller gets is the response of the first attempt
\* that produced one, or else the failure of the final attempt.
C38_SettlesOnceWithItsOutcome ==
    /\ <>(settled.state # "pending")
    /\ [][settled.state # "pending" => settled' = settled]_vars
    /\ [](Quiet => DeliveredOutcome)

(***************************************************************************)
(* Claims about the gate and the loop (checked under Spec)                 *)
(***************************************************************************)

LastPost == posts[Len(posts)]

\* the fingerprint of every title, by the definition of the data model
FingerprintOf == [t \in Titles |-> normalizeTitle(t)]

\* C5: once a post with title t1 has been recorded, the duplicate check answers
\* true for every title t2 whose fingerprint equals that of t1, in every later
\* state of the agent (in the classes that have the duplicate filter).
C5_RecordedFingerprintIsDuplicate ==
    \A i \in 1..Len(posts) : \A t2 \in Titles :
        HasFilter /\ FingerprintOf[t2] = FingerprintOf[posts[i].title]
            => isDuplicate(t2)

\* a post was recorded, another title has its fingerprint, and a later run of the
\* loop has met a title already seen
C5_Witness ==
    /\ Len(posts) = 1
    /\ \E t2 \in Titles :
          t2 # posts[1].title /\ FingerprintOf[t2] = FingerprintOf[posts[1].title]
    /\ now >= posts[1].at + POST_COOLDOWN_MS
    /\ run[1].duplicates > 0
    /\ pc[1] = "gen"

\* C6: at the moment a post is recorded canPost() is false, and after a post it
\* is true only in states where now >= (time of the post) + POST_COOLDOWN_MS.
C6_CooldownAfterPost ==
    Len(posts) > 0 =>
        /\ now = LastPost.at => ~canPost
        /\ canPost => now >= LastPost.at + POST_COOLDOWN_MS

\* a post was recorded and the gate opened again for a later run
C6_Witness ==
    /\ Len(posts) = 1
    /\ canPost
    /\ run[1].gateOpen
    /\ pc[1] = "ctxTrending"

\* C7: on an agent that never recorded a post, canPost() is true, so no run ends
\* on cooldown.
C7_FreshAgentCanPost ==
    Len(posts) = 0 =>
        /\ canPost
        /\ \A c \in Cycles : run[c].outcome # "cooldown"

\* the gate was evaluated on an agent that never posted
C7_Witness == Len(posts) = 0 /\ run[1].gateOpen /\ lastPostTime = 0

\* the generator sent only well-formed titles not seen before, and neither it nor
\* createPost failed
CleanRun(c) ==
    /\ run[c].gateOpen
    /\ run[c].malformed = 0
    /\ run[c].duplicates = 0
    /\ run[c].refused = 0
    /\ run[c].outcome \notin {"rejected", "threw", "swallowed"}

\* C9: with the gate open, a generator that returns a well-formed candidate with
\* an unseen fingerprint and a createPost that succeeds, the loop ends with the
\* post after exactly one generateResponse call and exactly one createPost call.
C9_FirstAttemptSucceeds ==
    \A c \in Cycles :
        CleanRun(c) =>
            /\ run[c].genCalls <= 1
            /\ run[c].createCalls <= 1
            /\ pc[c] = "done" =>
                  /\ run[c].outcome = "posted"
                  /\ run[c].genCalls = 1
                  /\ run[c].createCalls = 1
                  /\ run[c].attempt = 0
                  /\ LastPost.title = run[c].title

C9_Witness == CleanRun(1) /\ pc[1] = "done" /\ run[1].outcome = "posted"

\* the generator sent an already seen title four times, then a fresh one
FourSeenThenFresh(c) ==
    /\ run[c].duplicates = 4
    /\ run[c].malformed = 0
    /\ run[c].refused = 0
    /\ run[c].attempt = 4
    /\ pc[c] \in {"create", "done"}

\* C10: when the generator returns an already seen title on attempts 1 to 4 and
\* a fresh well-formed title on attempt 5, createPost is called exactly once, with
\* the 5th title, and (createPost succeeding) the loop ends with that post, made
\* on attempt 5.
C10_FifthAttemptSucceeds ==
    \A c \in Cycles :
        FourSeenThenFresh(c) =>
            /\ run[c].genCalls = 5
            /\ run[c].createCalls = 1
            /\ pc[c] = "create" =>
                  (run[c].title \in Titles /\ ~FingerprintSeen(run[c].title))
            /\ pc[c] = "done" /\ run[c].outcome # "rejected" =>
                  /\ run[c].outcome = "posted"
                  /\ LastPost.title = run[c].title

C10_Witness == FourSeenThenFresh(1) /\ pc[1] = "done" /\ run[1].outcome = "posted"

\* the answers of the generator received so far in this run
Received(c) == run[c].genCalls - (IF pc[c] = "gen" THEN 1 ELSE 0)

\* the gate was open, the generator never failed, and every answer it gave so
\* far was malformed or carried a title whose fingerprint was already seen
OnlyUnusable(c) ==
    /\ HasFilter
    /\ run[c].gateOpen
    /\ run[c].genCalls > 0
    /\ run[c].outcome \notin {"threw", "swallowed"}
    /\ run[c].malformed + run[c].duplicates = Received(c)

\* C11: when every answer of the generator is malformed (TITLE: or CONTENT:
\* missing) or carries a title whose fingerprint is already seen, the loop ends
\* exhausted after exactly maxRetries (5) generateResponse calls and never calls
\* createPost.
C11_ExhaustedAfterMaxRetries ==
    \A c \in Cycles :
        OnlyUnusable(c) =>
            /\ run[c].createCalls = 0
            /\ run[c].genCalls <= maxRetries
            /\ pc[c] \in {"gen", "done"}
            /\ pc[c] = "done" =>
                  /\ run[c].outcome = "exhausted"
                  /\ run[c].genCalls = maxRetries
                  /\ run[c].attempt = maxRetries

C11_Witness ==
    /\ OnlyUnusable(1)
    /\ pc[1] = "done"
    /\ run[1].malformed > 0
    /\ run[1].duplicates > 0

\* what is left of the cooldown, in seconds
Remaining == POST_COOLDOWN_MS - (now - lastPostTime)

\* C12: when canPost() is false as createOriginalPost() starts, the call ends in
\* that same step on cooldown: no generateResponse call, no createPost call, no
\* context fetch, and the wait it reports is the remaining cooldown rounded up to
\* whole minutes.
C12_ClosedGateEndsAtOnce ==
    [][\A c \in Cycles :
          (Resting(c) /\ ~canPost /\ run'[c] # run[c] /\ run'[c].via = "direct") =>
              /\ pc'[c] = "done"
              /\ run'[c].outcome = "cooldown"
              /\ run'[c].returned = "null"
              /\ run'[c].genCalls = 0
              /\ run'[c].createCalls = 0
              /\ run'[c].ctxFetches = 0
              /\ run'[c].wait * 60 >= Remaining
              /\ (run'[c].wait - 1) * 60 < Remaining]_vars

\* a direct call met the closed gate half way through the cooldown
C12_Witness ==
    /\ run[1].via = "direct"
    /\ run[1].outcome = "cooldown"
    /\ run[1].wait = 15
    /\ pc[1] = "done"

\* C13: when createPost fails with an error whose message marks a duplicate found
\* by the server, the attempt counts as failed and the loop goes on: with
\* attempts left the next generateResponse call is made, otherwise the loop ends
\* exhausted; it never ends as rejected.
C13_ServerDuplicateContinues ==
    [][\A c \in Cycles :
          (HasFilter /\ pc[c] = "create" /\ run'[c].refused = run[c].refused + 1) =>
              /\ run'[c].attempt = run[c].attempt + 1
              /\ run'[c].createCalls = run[c].createCalls
              /\ IF run[c].attempt + 1 < maxRetries
                 THEN /\ pc'[c] = "gen"
                      /\ run'[c].genCalls = run[c].genCalls + 1
                      /\ run'[c].outcome = "none"
                 ELSE /\ pc'[c] = "done"
                      /\ run'[c].genCalls = run[c].genCalls
                      /\ run'[c].outcome = "exhausted"]_vars

\* the server refused a post as a duplicate and a later title was submitted
C13_Witness == HasFilter /\ run[1].refused = 1 /\ pc[1] = "create" /\ run[1].attempt = 1

NonSuccess == {"exhausted", "cooldown", "rejected"}

\* C15: what createOriginalPost() hands back to its caller tells the three
\* endings without a post apart: the value returned for one of exhausted,
\* cooldown and rejected is not the value returned for another of them.
C15_EndingsAreDistinguished ==
    \A c \in Cycles :
        (run[c].returned # "none" /\ run[c].outcome \in NonSuccess) =>
            \A other \in NonSuccess \ {run[c].outcome} :
                ReturnValue(other) # run[c].returned

CycleEnded(c) == pc[c] \in {"done", "threw"}

\* C16: a heartbeat cycle in which an auxiliary fetch failed (post history,
\* profile, trending, context) still reaches the gate check, and with the gate
\* open the loop: it ends on cooldown or after at least one generateResponse call.
C16_AuxiliaryFailureIsCaught ==
    \A c \in Cycles :
        (run[c].via = "heartbeat" /\ run[c].auxFailed /\ CycleEnded(c)) =>
            \/ run[c].outcome = "cooldown"
            \/ run[c].gateOpen /\ run[c].genCalls >= 1

\* C17: any two recorded posts of one agent are at least POST_COOLDOWN_MS apart,
\* and createPost is only ever called in a run whose gate check answered true,
\* at least POST_COOLDOWN_MS after the post before.
C17_PostsAreCooldownApart ==
    /\ \A i, j \in 1..Len(posts) :
          i < j => posts[j].at - posts[i].at >= POST_COOLDOWN_MS
    /\ \A c \in Cycles :
          pc[c] = "create" =>
              /\ run[c].gateOpen
              /\ Len(posts) > 0 => now - LastPost.at >= POST_COOLDOWN_MS

\* two posts were recorded, the second through a heartbeat cycle
C17_Witness ==
    /\ Len(posts) = 2
    /\ run[1].via = "heartbeat"
    /\ run[1].outcome = "posted"

\* C18: within one run no two createPost calls carry titles with the same
\* fingerprint: a title is not submitted when the server already refused a title
\* with its fingerprint in this run.
C18_NoFingerprintSubmittedTwice ==
    \A c \in Cycles :
        pc[c] = "create" => FingerprintOf[run[c].title] \notin run[c].refusedPrints

\* generateResponse() failed inside the loop of a heartbeat cycle
EscapedLoop(c) ==
    /\ run[c].via = "heartbeat"
    /\ run[c].gateOpen
    /\ run[c].genCalls >= 1
    /\ run[c].outcome \in {"threw", "swallowed"}

\* C19: an error that escapes the loop during a heartbeat cycle leaves
\* heartbeat() as a rejection; heartbeat() does not complete normally.
C19_EscapedErrorPropagates ==
    \A c \in Cycles :
        EscapedLoop(c) => pc[c] = "threw" /\ run[c].outcome = "threw"

\* C22: the set of seen fingerprints only grows: every step of the agent
\* (seeding from history, duplicate check, loop run that succeeds or fails,
\* heartbeat) leaves every fingerprint that was in the set in it.
C22_SeenSetOnlyGrows == [][recentPostTitles \subseteq recentPostTitles']_vars

\* a later heartbeat seeded the set again after a post had been recorded in it
C22_Witness ==
    /\ Len(posts) = 1
    /\ Cardinality(recentPostTitles) >= 2
    /\ now > posts[1].at
    /\ pc[1] = "profile"
    /\ run[1].fetched >= 1

\* calls of the cycle that were made and have not settled yet
FetchesOut(c) == run[c].hbFetches + run[c].ctxFetches - run[c].fetched
GenOut(c) ==
    run[c].genCalls
        - (run[c].malformed + run[c].duplicates + run[c].createCalls + run[c].genFailures)
CreateOut(c) ==
    run[c].createCalls
        - (run[c].refused + run[c].rejections
            + (IF run[c].outcome = "posted" THEN 1 ELSE 0))

\* C26: within one cycle the network calls are sequential: a fetch, a
\* generateResponse call or a createPost call is made only when every earlier
\* call of the cycle has settled, so a cycle has exactly one call outstanding
\* while it runs and none when it rests.
C26_OneCallOutstanding ==
    \A c \in Cycles :
        /\ FetchesOut(c) >= 0 /\ GenOut(c) >= 0 /\ CreateOut(c) >= 0
        /\ FetchesOut(c) + GenOut(c) + CreateOut(c) = (IF Resting(c) THEN 0 ELSE 1)

\* a cycle went through its fetches and generator calls and waits for createPost
C26_Witness ==
    /\ run[1].via = "heartbeat"
    /\ pc[1] = "create"
    /\ run[1].fetched >= 5
    /\ run[1].genCalls >= 2
    /\ CreateOut(1) = 1

\* C27: every generateResponse call of the loop gets a prompt with a random
\* seed drawn for that attempt: as many seeds were drawn as calls were made.
C27_SeedPerAttempt ==
    \A c \in Cycles : HasFilter => run[c].seedDraws = run[c].genCalls

\* C29: a failure of generateResponse inside the loop leaves the loop at once and
\* is not retried: the run is over, with no generateResponse call and no
\* createPost call after the failed one, and createOriginalPost() returned
\* nothing.
C29_GenerationFailureIsSurfaced ==
    \A c \in Cycles :
        run[c].genFailures > 0 =>
            /\ CycleEnded(c)
            /\ run[c].genFailures = 1
            /\ run[c].outcome \in {"threw", "swallowed"}
            /\ run[c].returned = "none"
            /\ run[c].genCalls = run[c].attempt + 1
            /\ GenOut(c) = 0
            /\ CreateOut(c) = 0

\* the generator failed on the third attempt of a run
C29_Witness ==
    /\ run[1].genFailures = 1
    /\ run[1].attempt = 2
    /\ run[1].refused >= 1
    /\ pc[1] = "threw"

\* C30: when the history fetch of loadRecentPosts() fails, the method returns
\* without raising, the set of seen fingerprints stays as it was, and
\* heartbeat() goes on with its next step towards the gate.
C30_SeedingIsBestEffort ==
    [][\A c \in Cycles :
          (pc[c] \in {"load", "loadSearch"} /\ run'[c].auxFailed) =>
              /\ recentPostTitles' = recentPostTitles
              /\ pc'[c] = "profile"
              /\ run'[c].outcome = "none"]_vars

\* the history fetch failed on a fresh agent, whose set stays empty
C30_Witness ==
    /\ pc[1] = "profile"
    /\ run[1].auxFailed
    /\ recentPostTitles = {}
    /\ Len(posts) = 0

(***************************************************************************)
(* Claims about the comment quota (checked under SpecComment)              *)
(***************************************************************************)

\* C8: within one quota window canComment() answers true while fewer than
\* COMMENT_LIMIT comments were accepted, and false once COMMENT_LIMIT were, until
\* the window duration has passed since the window's start.
C8_QuotaPerWindow ==
    comments.asked =>
        /\ comments.answer <=> comments.atAsk < COMMENT_LIMIT
        /\ ~WindowElapsed(comments.windowStart) =>
              (canComment <=> comments.accepted < COMMENT_LIMIT)

\* the quota was used up and canComment() refused
C8_Witness ==
    /\ comments.asked
    /\ ~comments.answer
    /\ comments.accepted = COMMENT_LIMIT
    /\ cpc[1] = "limited"

\* a step in which canComment() ran: with every caller at rest, anything but the
\* passing of time starts with it
GateStep == (\A k \in Callers : CallerResting(k)) /\ now' = now

\* a step in which a comment was counted
CountStep == \E k \in Callers : cpc[k] = "create" /\ commentCount' # commentCount

\* canComment() as the reset rule requires it
GateAppliesReset ==
    /\ commentCount' = (IF WindowElapsed(commentResetTime) THEN 0 ELSE commentCount)
    /\ commentResetTime' = (IF WindowElapsed(commentResetTime) THEN now
                            ELSE commentResetTime)
    /\ comments'.answer = (commentCount' < COMMENT_LIMIT)
    /\ \A k \in Callers : cpc'[k] = "getPost" => comments'.answer

\* C23: once the window has passed, commentCount is set to 0 and the window
\* start to now before a comment is permitted or counted: canComment() applies
\* this reset and then answers commentCount < COMMENT_LIMIT, leaving both fields
\* alone while the window has not passed, and a comment is only ever counted in
\* a window that has not passed.
C23_ResetBeforePermitOrCount ==
    [][/\ GateStep => GateAppliesReset
       /\ CountStep => ~WindowElapsed(commentResetTime)]_vars

\* C24: counting a comment applies the reset rule at that moment and then
\* increments: a comment whose createComment() returns after the window has
\* passed makes commentCount 1 and the window start now; otherwise the count
\* goes up by one in the same window.
C24_CountingAppliesReset ==
    [][CountStep =>
          IF WindowElapsed(commentResetTime)
          THEN commentCount' = 1 /\ commentResetTime' = now
          ELSE commentCount' = commentCount + 1
                  /\ commentResetTime' = commentResetTime]_vars

\* C25: heartbeat cycles are not serialized: the timer may start a cycle
\* whatever an earlier cycle is doing, the loop included, and nothing makes one
\* cycle wait for the other (so both can pass canPost() before either records
\* its post, and both posts are created within one cooldown period).
C25_CyclesAreNotSerialized ==
    \A c \in Cycles : Resting(c) => ENABLED Heartbeat(c)

\* both cycles passed the gate and created their post, less than a cooldown apart
C25_Witness ==
    /\ Len(posts) >= 2
    /\ posts[2].at - posts[1].at < POST_COOLDOWN_MS
    /\ \A c \in Cycles : run[c].gateOpen /\ run[c].outcome = "posted"

\* a cycle that is inside the generate-validate-submit loop
InLoop(c) == pc[c] \in {"gen", "create"}

\* the calls a run can still make: two for each attempt that is left, one less
\* once the generator answered in the current attempt
LoopMeasure(p, r) == 2 * (maxRetries - r.attempt) - (IF p = "create" THEN 1 ELSE 0)

\* the counts of a run of the loop
LoopBounds(c) ==
    /\ run[c].genCalls <= maxRetries
    /\ run[c].createCalls <= maxRetries
    /\ run[c].createCalls <= run[c].genCalls
    /\ run[c].attempt = run[c].malformed + run[c].duplicates + run[c].refused
    /\ run[c].attempt <= maxRetries
    /\ InLoop(c) => run[c].attempt < maxRetries /\ run[c].genCalls = run[c].attempt + 1
    /\ run[c].outcome = "exhausted" => run[c].attempt = maxRetries

\* C32: a run of the loop ends, with the post, exhausted or aborted, after at
\* most maxRetries (5) generateResponse calls and at most maxRetries createPost
\* calls, whatever the generator and the server answer: every call that settles
\* brings the run nearer to its end, and each parse failure, each local
\* duplicate and each duplicate refused by the server takes exactly one attempt.
C32_LoopTerminates ==
    /\ [](\A c \in Cycles : HasFilter => LoopBounds(c))
    /\ [][\A c \in Cycles :
            (HasFilter /\ InLoop(c) /\ <<pc[c], run[c]>> # <<pc'[c], run'[c]>>) =>
                \/ pc'[c] \in {"done", "threw"}
                \/ /\ pc'[c] \in {"gen", "create"}
                   /\ LoopMeasure(pc'[c], run'[c]) < LoopMeasure(pc[c], run[c])]_vars

\* a run that used all five attempts: a parse failure, a local duplicate and
\* three titles the server refused
C32_Witness ==
    /\ HasFilter
    /\ run[1].outcome = "exhausted"
    /\ run[1].genCalls = maxRetries
    /\ run[1].malformed >= 1
    /\ run[1].duplicates >= 1
    /\ run[1].refused >= 1

\* C33: lastPostTime and the set of seen fingerprints change in the loop only
\* when createPost() succeeded: every other step of a run (the closed gate, a
\* parse failure, a duplicate, a refusal or another failure of createPost, a
\* failure of the generator, the end of the attempts) leaves both as they were.
\* Outside the loop only the seeding of loadRecentPosts() adds to the set.
C33_OnlySuccessRecords ==
    [][(lastPostTime' # lastPostTime \/ recentPostTitles' # recentPostTitles) =>
          \E c \in Cycles :
              \/ /\ pc[c] = "create"
                 /\ run'[c].outcome = "posted"
                 /\ Len(posts') = Len(posts) + 1
              \/ /\ pc[c] \in {"load", "loadSearch"}
                 /\ lastPostTime' = lastPostTime]_vars

\* a run went through a refusal and ended on another failure of createPost,
\* with nothing recorded
C33_Witness ==
    /\ run[1].outcome = "rejected"
    /\ run[1].refused >= 1
    /\ run[1].via = "direct"
    /\ lastPostTime = InitialLastPostTime
    /\ recentPostTitles = {}
    /\ posts = <<>>

(***************************************************************************)
(* Claims about overlapping cycles (checked under SpecOverlap)             *)
(***************************************************************************)

\* cycle c calls createPost() in this step
IssuesCreate(c) == pc[c] = "gen" /\ pc'[c] = "create"

\* C36: however the heartbeat cycles interleave, createPost() is never called
\* with a title whose fingerprint is in the seen set at the moment of the call:
\* the duplicate check and the call are made in one step, with no await
\* between them.
C36_NoSeenFingerprintIsSubmitted ==
    [][\A c \in Cycles :
          IssuesCreate(c) =>
              /\ normalizeTitle(run'[c].title) \notin recentPostTitles
              /\ recentPostTitles' = recentPostTitles]_vars

\* while cycle 2 was in its loop cycle 1 recorded a post; cycle 2 then got a
\* title with that fingerprint, passed over it, and submitted another title
C36_Witness ==
    /\ Len(posts) = 1
    /\ run[1].outcome = "posted"
    /\ run[2].gateOpen
    /\ run[2].duplicates >= 1
    /\ pc[2] = "create"
    /\ normalizeTitle(run[2].title) \notin recentPostTitles

(***************************************************************************)
(* Claims about overlapping commentOnPost calls (checked under             *)
(* SpecCommentOverlap)                                                     *)
(***************************************************************************)

\* C34: commentCount never exceeds COMMENT_LIMIT (50), also when several
\* commentOnPost() calls are awaiting at once and each passed canComment()
\* before any of them counted its comment.
C34_CountNeverExceedsLimit == commentCount <= COMMENT_LIMIT

\* caller k's call is refused by canComment() in this step
Refused(k) == cpc[k] # "limited" /\ cpc'[k] = "limited"

\* C37: commentCount goes up only when a createComment() call succeeded: a call
\* refused by canComment() ends at once, before any call to the server or the
\* generator, with commentCount as it was and no comment, and a call whose
\* createComment() failed leaves commentCount as it was and returns no comment.
C37_CountedOnlyAfterSuccess ==
    [][/\ commentCount' > commentCount =>
             \E k \in Callers : /\ cpc[k] = "create"
                                /\ cpc'[k] = "done"
                                /\ comments'.accepted = comments.accepted + 1
       /\ \A k \in Callers :
             /\ Refused(k) =>
                   /\ CallerResting(k)
                   /\ commentCount' = commentCount
                   /\ comments'.accepted = comments.accepted
             /\ (cpc[k] = "create" /\ cpc'[k] = "done"
                    /\ comments'.accepted = comments.accepted) =>
                   commentCount' = commentCount]_vars

\* a call was refused at the limit while another call was awaiting createComment()
C37_Witness ==
    /\ commentCount = COMMENT_LIMIT
    /\ cpc[1] = "limited"
    /\ cpc[2] = "create"

(***************************************************************************)
(* Claims about the fingerprint (checked under SpecFingerprint)            *)
(***************************************************************************)

\* the characters of a title that the fingerprint keeps, in the case they have
Surviving(text) == SelectSeq(text, LAMBDA c : Kept(toLowerCase(<<c>>)[1]))

\* C39: the fingerprint is an idempotent projection: it has at most 80
\* characters, all of them in [a-z0-9] or Han ideographs, normalizing it again
\* gives it back, and two titles that differ only in letter case, or only in
\* characters that are stripped, have the same fingerprint.
C39_FingerprintIsProjection ==
    prints # <<>> =>
        /\ \A n \in 1..2 :
              /\ Len(prints[n]) <= TITLE_MAX
              /\ \A i \in 1..Len(prints[n]) : Kept(prints[n][i])
              /\ normalizeTitle(prints[n]) = prints[n]
              /\ prints[n] = normalizeTitle(titles[n])
        /\ toLowerCase(titles[1]) = toLowerCase(titles[2]) => prints[1] = prints[2]
        /\ Surviving(titles[1]) = Surviving(titles[2]) => prints[1] = prints[2]

\* a title longer than the cut with a stripped character before it, and the
\* same title without that character
C39_Witness ==
    /\ prints # <<>>
    /\ Len(titles[1]) > TITLE_MAX
    /\ titles[1] # titles[2]
    /\ Surviving(titles[1]) = Surviving(titles[2])
    /\ Len(prints[1]) = TITLE_MAX
    /\ prints[1] = prints[2]

====
